---------------------------- MODULE Spec2Model ----------------------------
(***************************************************************************)
(* A model of mygit (codecrafters-git-go): the object codec, the zlib      *)
(* container, the sharded object store and the recursive write-tree walk.  *)
(*                                                                         *)
(* Byte strings are sequences of naturals 0..255.  Indices handed around   *)
(* by the Go code are 0-based and are kept 0-based here; GoSlice turns a   *)
(* Go slice expression data[lo:hi] into SubSeq.                            *)
(***************************************************************************)
EXTENDS Bags, Integers, Sequences, FiniteSets, TLC

(***************************************************************************)
(* Bounds of the model.                                                    *)
(***************************************************************************)
\* Longest file content drawn for the blob round trip.
MaxLen == 2
\* Most entries a generated directory holds.
MaxEntries == 3
\* Largest rotation of a directory listing.
MaxRot == 1

(***************************************************************************)
(* Bytes and byte strings.                                                 *)
(***************************************************************************)
NUL == 0
SP == 32
\* "blob", "tree"
TypeBlob == <<98, 108, 111, 98>>
TypeTree == <<116, 114, 101, 101>>
\* ".git"
DotGit == <<46, 103, 105, 116>>
\* const mode = 0755
mode == 493
\* 0o100000, the regular-file type bit of a tree entry's mode
RegularBit == 32768
\* "40000 "
DirModeStr == <<52, 48, 48, 48, 48>>
\* A digest is 20 raw bytes.
HashLen == 20

Min(a, b) == IF a < b THEN a ELSE b

\* Go's data[lo:hi] for 0 <= lo <= hi <= len(data).
GoSlice(data, lo, hi) == SubSeq(data, lo + 1, hi)

\* Whether Go evaluates data[lo:hi] without a run-time panic, for a slice
\* whose capacity is its length.
SliceOk(data, lo, hi) == 0 <= lo /\ lo <= hi /\ hi <= Len(data)

\* slices.Index: the 0-based index of the first b in data, or -1.
RECURSIVE IndexFrom(_, _, _)
IndexFrom(data, b, i) ==
    IF i > Len(data) THEN -1
    ELSE IF data[i] = b THEN i - 1
    ELSE IndexFrom(data, b, i + 1)

Index(data, b) == IndexFrom(data, b, 1)

RECURSIVE Concat(_)
Concat(seqs) == IF seqs = <<>> THEN <<>> ELSE Head(seqs) \o Concat(Tail(seqs))

\* Go's string comparison a < b: byte-wise, a proper prefix is smaller.
RECURSIVE StrLess(_, _)
StrLess(a, b) ==
    IF b = <<>> THEN FALSE
    ELSE IF a = <<>> THEN TRUE
    ELSE IF Head(a) # Head(b) THEN Head(a) < Head(b)
    ELSE StrLess(Tail(a), Tail(b))

(***************************************************************************)
(* Number formatting and parsing.                                          *)
(***************************************************************************)
IsDigit(b) == 48 <= b /\ b <= 57

\* fmt's %d and %o of a non-negative integer.
RECURSIVE FormatBase(_, _)
FormatBase(n, base) ==
    IF n < base THEN <<48 + n>>
    ELSE Append(FormatBase(n \div base, base), 48 + (n % base))

Itoa(n) == FormatBase(n, 10)
FormatOctal(n) == FormatBase(n, 8)

RECURSIVE DigitsValue(_, _)
DigitsValue(s, acc) ==
    IF s = <<>> THEN acc ELSE DigitsValue(Tail(s), acc * 10 + (Head(s) - 48))

\* strconv.Atoi: an optional sign, then one or more decimal digits.
Atoi(s) ==
    LET signed == s # <<>> /\ Head(s) \in {43, 45}
        digits == IF signed THEN Tail(s) ELSE s
    IN  IF digits = <<>> \/ \E i \in 1..Len(digits) : ~IsDigit(digits[i])
        THEN [err |-> TRUE, val |-> 0]
        ELSE [err |-> FALSE,
              val |-> IF signed /\ Head(s) = 45
                      THEN 0 - DigitsValue(digits, 0)
                      ELSE DigitsValue(digits, 0)]

\* fmt.Sprintf("%s %d\u0000", type, size)
FormatHeader(type, size) == type \o <<SP>> \o Itoa(size) \o <<NUL>>

\* The sum of a sequence of positive numbers: the cardinality of the bag
\* that holds each index i terms[i] times.
Sum(terms) == IF terms = <<>> THEN 0 ELSE BagCardinality(terms)

(***************************************************************************)
(* Hashing.  crypto/sha1 is abstracted by a deterministic 160-bit digest:  *)
(* two position-weighted sums over the whole input, spread over 20 bytes.  *)
(* The first four bytes carry both sums, so two inputs have the same       *)
(* digest only when both sums agree.                                       *)
(***************************************************************************)
calculateObjectBytesHash(data) ==
    LET n == Len(data)
        h1 == (Sum([i \in 1..n |->
                      (data[i] + 1) * (((31 * i * i + 7 * i + 1) % 4093) + 1)])
               + 977 * n + 7) % 65521
        h2 == (Sum([i \in 1..n |->
                      (data[i] + 1) * (((i * i * i + 131 * i + 5) % 4091) + 1)])
               + 3) % 65519
    IN  [i \in 1..HashLen |->
            CASE i = 1 -> h1 % 256
              [] i = 2 -> h1 \div 256
              [] i = 3 -> h2 % 256
              [] i = 4 -> h2 \div 256
              [] OTHER -> ((h1 * i + h2 * (i + 3)) \div 16 + i * i) % 256]

\* hex.EncodeToString: two lowercase hex digits per byte.
HexDigit(n) == IF n < 10 THEN 48 + n ELSE 87 + n

EncodeToString(bytes) ==
    [i \in 1..(2 * Len(bytes)) |->
        LET b == bytes[(i + 1) \div 2]
        IN  IF i % 2 = 1 THEN HexDigit(b \div 16) ELSE HexDigit(b % 16)]

(***************************************************************************)
(* compress/zlib.  A zlib stream is a 2-byte header, deflate blocks and    *)
(* the Adler-32 of the uncompressed data.  The writer is modelled with the *)
(* one-stored-block encoding (any deflate strategy decodes to the same     *)
(* bytes); the reader checks header, block framing and checksum.           *)
(***************************************************************************)
\* Adler-32 as its 4 big-endian bytes: a = 1 + sum of the bytes,
\* b = sum of the running values of a, both modulo 65521.
Adler32(data) ==
    LET n == Len(data)
        a == (1 + Sum([i \in 1..n |-> data[i] + 1]) - n) % 65521
        b == (n + Sum([i \in 1..n |-> (n - i + 1) * (data[i] + 1)])
                - (n * (n + 1)) \div 2) % 65521
    IN  <<b \div 256, b % 256, a \div 256, a % 256>>

\* zlib.NewWriter(&b); w.Write(content); w.Close()
Compress(content) ==
    LET n == Len(content)
    IN  <<120, 156, 1, n % 256, n \div 256, 255 - (n % 256), 255 - (n \div 256)>>
        \o content \o Adler32(content)

\* zlib.NewReader(f) followed by io.ReadAll(r).
Decompress(z) ==
    LET bad == [err |-> TRUE, data |-> <<>>]
    IN  IF Len(z) < 11 THEN bad
        ELSE IF z[1] % 16 # 8 \/ (z[1] * 256 + z[2]) % 31 # 0
                \/ (z[2] \div 32) % 2 = 1 THEN bad
        ELSE IF z[3] # 1 \/ z[4] + z[6] # 255 \/ z[5] + z[7] # 255 THEN bad
        ELSE LET n == z[4] + 256 * z[5]
             IN  IF Len(z) # 11 + n THEN bad
                 ELSE LET data == SubSeq(z, 8, 7 + n)
                      IN  IF SubSeq(z, 8 + n, 11 + n) # Adler32(data) THEN bad
                          ELSE [err |-> FALSE, data |-> data]

(***************************************************************************)
(* The object store: .git/objects/<2 hex chars>/<38 hex chars>.            *)
(* objects maps each shard directory name to its files (name -> bytes).    *)
(***************************************************************************)
NoFiles == [x \in {} |-> <<>>]

\* The shard directory of getObjectDir (hash[:2]) under .git/objects.
getObjectDir(hash) == GoSlice(hash, 0, 2)

\* The path of getObjectPath: <<shard directory, file name (hash[2:])>>.
getObjectPath(hash) == <<getObjectDir(hash), GoSlice(hash, 2, Len(hash))>>

\* Whether the file of an object path exists.
PathExists(objects, path) ==
    path[1] \in DOMAIN objects /\ path[2] \in DOMAIN objects[path[1]]

\* The hex hashes of the object files present.
Hashes(objects) ==
    UNION {{d \o f : f \in DOMAIN objects[d]} : d \in DOMAIN objects}

NoObject == [Type |-> <<>>, Size |-> 0, Content |-> <<>>]

\* parseType: the bytes before the first space (data[:endIdx] panics at -1).
parseType(data) ==
    LET endIdx == Index(data, SP)
    IN  IF ~SliceOk(data, 0, endIdx)
        THEN [panic |-> TRUE, type |-> <<>>, endIdx |-> endIdx]
        ELSE [panic |-> FALSE, type |-> GoSlice(data, 0, endIdx), endIdx |-> endIdx]

\* parseSize: the decimal between startIdx and the next NUL.
parseSize(data, startIdx) ==
    LET bad == [panic |-> TRUE, size |-> 0, endIdx |-> 0, err |-> FALSE]
    IN  IF ~SliceOk(data, startIdx, Len(data)) THEN bad
        ELSE LET endIdxSliced == Index(GoSlice(data, startIdx, Len(data)), NUL)
                 endIdx == startIdx + endIdxSliced
             IN  IF ~SliceOk(data, startIdx, endIdx) THEN bad
                 ELSE LET n == Atoi(GoSlice(data, startIdx, endIdx))
                      IN  [panic |-> FALSE, size |-> n.val, endIdx |-> endIdx,
                           err |-> n.err]

\* The framing half of parseObject (lines 76-86), on the decompressed bytes.
decodeObject(data) ==
    LET t == parseType(data)
    IN  IF t.panic THEN [status |-> "panic", obj |-> NoObject]
        ELSE LET s == parseSize(data, t.endIdx + 1)
             IN  IF s.panic THEN [status |-> "panic", obj |-> NoObject]
                 ELSE IF s.err THEN [status |-> "error", obj |-> NoObject]
                 ELSE [status |-> "ok",
                       obj |-> [Type |-> t.type, Size |-> s.size,
                                Content |-> GoSlice(data, s.endIdx + 1, Len(data))]]

\* parseObject: open, inflate, decode.  hash[:2] panics on a short argument.
parseObject(objects, hash) ==
    IF Len(hash) < 2 THEN [status |-> "panic", obj |-> NoObject]
    ELSE LET path == getObjectPath(hash)
         IN  IF ~PathExists(objects, path)
             THEN [status |-> "error", obj |-> NoObject]
             ELSE LET r == Decompress(objects[path[1]][path[2]])
                  IN  IF r.err THEN [status |-> "error", obj |-> NoObject]
                      ELSE decodeObject(r.data)

\* createObjectDir: os.Stat, then os.MkdirAll when the shard is absent.
createObjectDir(objects, hash) ==
    IF getObjectDir(hash) \in DOMAIN objects THEN objects
    ELSE objects @@ (getObjectDir(hash) :> NoFiles)

\* A write that appends to an existing file where the code truncates it.
WriteFileAppend(objects, path, bytes) ==
    [objects EXCEPT ![path[1]] =
        [f \in DOMAIN @ \cup {path[2]} |->
            IF f # path[2] THEN @[f]
            ELSE IF f \in DOMAIN @ THEN @[f] \o bytes ELSE bytes]]

\* os.WriteFile(getObjectPath(hashStr), b.Bytes(), mode): create or truncate.
WriteFile(objects, path, bytes) ==
    [objects EXCEPT ![path[1]] =
        [f \in DOMAIN @ \cup {path[2]} |-> IF f = path[2] THEN bytes ELSE @[f]]]

\* saveObjectFile: deflate, make the shard directory, write the file.
saveObjectFile(objects, content, hash) ==
    LET hashStr == EncodeToString(hash)
    IN  WriteFile(createObjectDir(objects, hashStr), getObjectPath(hashStr),
                  Compress(content))

(***************************************************************************)
(* Tree payloads: <mode> <name>\0<20 raw hash bytes>, repeated.            *)
(***************************************************************************)
\* bytes.Split(line, []byte(" "))
RECURSIVE Split(_, _)
Split(line, sep) ==
    LET i == Index(line, sep)
    IN  IF i = -1 THEN <<line>>
        ELSE <<GoSlice(line, 0, i)>> \o Split(GoSlice(line, i + 1, Len(line)), sep)

\* parseModeName: exactly two space-separated parts, the first through Atoi
\* (whose error leaves through the named result err).
parseModeName(line) ==
    LET lineParts == Split(line, SP)
    IN  IF Len(lineParts) # 2 THEN [err |-> TRUE, Mode |-> 0, Name |-> <<>>]
        ELSE LET n == Atoi(lineParts[1])
             IN  [err |-> n.err, Mode |-> n.val, Name |-> lineParts[2]]

\* contentPart[nullByteIdx+1 : nullByteIdx+21].  The slice may run past
\* len(contentPart) into the spare capacity io.ReadAll leaves behind the
\* data (zero bytes for the small buffers of this model).
HashField(contentPart, nullByteIdx) ==
    [i \in 1..HashLen |->
        IF nullByteIdx + 1 + i <= Len(contentPart)
        THEN contentPart[nullByteIdx + 1 + i] ELSE 0]

\* Where the loop of decodeTreeObjectContent resumes after an entry whose
\* NUL is at nullByteIdx (contentPart[nullByteIdx+22:]).
NextEntryIdx(nullByteIdx) == nullByteIdx + 22

\* The loop of decodeTreeObjectContent (lines 170-183).
RECURSIVE DecodeLoop(_, _)
DecodeLoop(contentPart, treeObjectLines) ==
    LET nullByteIdx == Index(contentPart, NUL)
    IN  IF ~SliceOk(contentPart, 0, nullByteIdx)
        THEN [status |-> "panic", lines |-> treeObjectLines]
        ELSE LET mn == parseModeName(GoSlice(contentPart, 0, nullByteIdx))
             IN  IF mn.err THEN [status |-> "error", lines |-> treeObjectLines]
                 ELSE LET more == Append(treeObjectLines,
                                         [Mode |-> mn.Mode, Name |-> mn.Name,
                                          Hash |-> HashField(contentPart, nullByteIdx)])
                      IN  IF NextEntryIdx(nullByteIdx) > Len(contentPart)
                          THEN [status |-> "ok", lines |-> more]
                          ELSE DecodeLoop(GoSlice(contentPart, NextEntryIdx(nullByteIdx),
                                                  Len(contentPart)), more)

\* decodeTreeObjectContent: the entries, and the names one per line.
decodeTreeObjectContent(content) ==
    LET r == DecodeLoop(content, <<>>)
    IN  [status |-> r.status,
         lines |-> IF r.status = "ok" THEN r.lines ELSE <<>>,
         output |-> IF r.status = "ok"
                    THEN Concat([i \in 1..Len(r.lines) |-> r.lines[i].Name \o <<10>>])
                    ELSE <<>>]

(***************************************************************************)
(* The file system seen from the working directory.  A node is a file      *)
(* (content, permission bits) or a directory (children by name).  The      *)
(* working tree never holds the root's ".git": that directory is the       *)
(* store, rebuilt from objects whenever it is looked at.                   *)
(***************************************************************************)
FileNode(content, perm) ==
    [isDir |-> FALSE, perm |-> perm, content |-> content, children |-> <<>>]

DirNode(children, perm) ==
    [isDir |-> TRUE, perm |-> perm, content |-> <<>>, children |-> children]

\* Owner read and owner search bits; the process runs as the owner.
Readable(perm) == (perm \div 256) % 2 = 1
Searchable(perm) == (perm \div 64) % 2 = 1

\* "objects", "refs", "HEAD", "ref: refs/heads/main\n"
ObjectsName == <<111, 98, 106, 101, 99, 116, 115>>
RefsName == <<114, 101, 102, 115>>
HeadName == <<72, 69, 65, 68>>
headFileContents ==
    <<114, 101, 102, 58, 32, 114, 101, 102, 115, 47, 104, 101, 97, 100, 115,
      47, 109, 97, 105, 110, 10>>

\* .git exists once init ran or an object was saved (os.MkdirAll).
GitExists(fs) == fs.inited \/ DOMAIN fs.objects # {}

\* The directory .git as the commands leave it.
GitNode(fs) ==
    LET shard(d) ==
            DirNode([f \in DOMAIN fs.objects[d] |-> FileNode(fs.objects[d][f], mode)],
                    mode)
        objs == DirNode([d \in DOMAIN fs.objects |-> shard(d)], mode)
    IN  DirNode(IF fs.inited
                THEN (ObjectsName :> objs) @@ (RefsName :> DirNode(<<>>, mode))
                     @@ (HeadName :> FileNode(headFileContents, mode))
                ELSE (ObjectsName :> objs),
                mode)

\* The working directory "." with the store under it.
RootNode(fs) ==
    IF GitExists(fs)
    THEN [fs.work EXCEPT !.children =
             [n \in DOMAIN @ \cup {DotGit} |->
                 IF n = DotGit THEN GitNode(fs) ELSE @[n]]]
    ELSE fs.work

NoNode == [found |-> FALSE, node |-> FileNode(<<>>, 0)]

\* The node a path (a sequence of names) leads to; every directory on the
\* way must be searchable.
RECURSIVE Walk(_, _)
Walk(node, path) ==
    IF path = <<>> THEN [found |-> TRUE, node |-> node]
    ELSE IF ~node.isDir \/ ~Searchable(node.perm)
            \/ Head(path) \notin DOMAIN node.children THEN NoNode
    ELSE Walk(node.children[Head(path)], Tail(path))

\* The node at a path below "."; only a path into .git needs the store
\* spelt out as directories.
Lookup(fs, path) ==
    IF path = <<>> THEN [found |-> TRUE, node |-> RootNode(fs)]
    ELSE IF Head(path) # DotGit THEN Walk(fs.work, path)
    ELSE IF GitExists(fs) THEN Walk(GitNode(fs), Tail(path))
    ELSE NoNode

\* The names of a set in ascending byte order.
RECURSIVE Ascending(_)
Ascending(names) ==
    IF names = {} THEN <<>>
    ELSE LET m == CHOOSE x \in names : \A y \in names \ {x} : StrLess(x, y)
         IN  <<m>> \o Ascending(names \ {m})

Reverse(s) == [i \in 1..Len(s) |-> s[Len(s) + 1 - i]]
Rotate(s, k) ==
    IF s = <<>> THEN s
    ELSE [i \in 1..Len(s) |-> s[((i - 1 + k) % Len(s)) + 1]]

\* The orders a directory listing may come in: ascending or descending,
\* rotated.  (os.ReadDir documents ascending order; the walk does not rely
\* on it, and the model admits the others.)
Orders == [desc : BOOLEAN, rot : 0..MaxRot]

\* os.ReadDir(dirPath): the names of the entries, in listing order ord.
ReadDir(fs, dirPath, ord) ==
    LET l == Lookup(fs, dirPath)
    IN  IF ~l.found \/ ~l.node.isDir \/ ~Readable(l.node.perm)
        THEN [err |-> TRUE, files |-> <<>>]
        ELSE LET asc == Ascending(DOMAIN l.node.children)
             IN  [err |-> FALSE,
                  files |-> Rotate(IF ord.desc THEN Reverse(asc) ELSE asc, ord.rot)]

(***************************************************************************)
(* hash-object and write-tree.                                             *)
(***************************************************************************)
\* A blob framing whose header lacks the closing NUL.
BlobBytesNoNul(content) ==
    Concat(<<TypeBlob, <<SP>>, Itoa(Len(content)), content>>)

\* The bytes of a blob object (lines 134-136): header, then the content.
BlobBytes(content) == FormatHeader(TypeBlob, Len(content)) \o content

\* writeBlobObject: read the file, frame it as a blob, hash and save.
writeBlobObject(fs, filename) ==
    LET l == Lookup(fs, filename)
    IN  IF ~l.found \/ ~Readable(l.node.perm) \/ l.node.isDir
        THEN [objects |-> fs.objects, err |-> TRUE, hash |-> <<>>]
        ELSE LET content == l.node.content
                 lineBytes == BlobBytes(content)
                 hashBytes == calculateObjectBytesHash(lineBytes)
             IN  [objects |-> saveObjectFile(fs.objects, lineBytes, hashBytes),
                  err |-> FALSE, hash |-> hashBytes]

\* A walk that skips no entry, .git included.
NothingExcluded(name) == FALSE

\* if file.Name() == ".git" { continue }
IsExcluded(name) == name = DotGit

\* An error check that lets a failed blob write pass.
BlobFailedIgnored(b) == FALSE

\* if err != nil { return nil, err } after writeBlobObject (line 227).
BlobFailed(b) == b.err

\* A comparison on the whole entry line, mode first, instead of the name.
EntryLessByLine(a, b) == StrLess(a.lineBytes, b.lineBytes)

\* The comparison handed to sort.Slice.
EntryLess(a, b) == StrLess(a.fileName, b.fileName)

\* sort.Slice(entries, less)
RECURSIVE Insert(_, _)
Insert(sorted, e) ==
    IF sorted = <<>> THEN <<e>>
    ELSE IF EntryLess(e, Head(sorted)) THEN <<e>> \o sorted
    ELSE <<Head(sorted)>> \o Insert(Tail(sorted), e)

RECURSIVE SortSlice(_)
SortSlice(entries) ==
    IF entries = <<>> THEN <<>>
    ELSE Insert(SortSlice(SubSeq(entries, 1, Len(entries) - 1)), entries[Len(entries)])

\* The entry line of a subdirectory (line 221) and of a file (line 230).
DirLine(name, hashBytes) == DirModeStr \o <<SP>> \o name \o <<NUL>> \o hashBytes

\* A file entry that embeds the hash as hex text instead of raw bytes.
FileLineHex(perm, name, hashBytes) ==
    FormatOctal(RegularBit + perm) \o <<SP>> \o name \o <<NUL>>
    \o EncodeToString(hashBytes)

FileLine(perm, name, hashBytes) ==
    FormatOctal(RegularBit + perm) \o <<SP>> \o name \o <<NUL>> \o hashBytes

\* What a write-tree call hands back: the store, how it ended ("ok",
\* "error", "panic"), the hash, the object files saved in order, and the
\* path at which an error or panic arose.
TreeResult(objects, status, hash, written, at) ==
    [objects |-> objects, status |-> status, hash |-> hash,
     written |-> written, at |-> at]

RECURSIVE writeTreeObject(_, _, _)
RECURSIVE TreeLoop(_, _, _, _, _, _, _, _)

\* The loop over files (lines 205-235) from index i on, then lines 237-250.
TreeLoop(fs, dirPath, ord, files, i, entries, totalSize, written) ==
    IF i > Len(files)
    THEN LET sorted == SortSlice(entries)
             lineBytes == FormatHeader(TypeTree, totalSize)
                          \o Concat([k \in 1..Len(sorted) |-> sorted[k].lineBytes])
             hashBytes == calculateObjectBytesHash(lineBytes)
         IN  TreeResult(saveObjectFile(fs.objects, lineBytes, hashBytes), "ok",
                        hashBytes,
                        Append(written, [path |-> dirPath, kind |-> "tree",
                                         hash |-> hashBytes]),
                        <<>>)
    ELSE LET name == files[i]
             path == Append(dirPath, name)
             l == Lookup(fs, path)
         IN  IF IsExcluded(name)
             THEN TreeLoop(fs, dirPath, ord, files, i + 1, entries, totalSize, written)
             ELSE IF ~l.found
             THEN TreeResult(fs.objects, "error", <<>>, written, path)
             ELSE IF l.node.isDir
             THEN LET r == writeTreeObject(fs, path, ord)
                      lineBytes == DirLine(name, r.hash)
                  IN  IF r.status # "ok"
                      THEN [r EXCEPT !.written = written \o r.written]
                      ELSE TreeLoop([fs EXCEPT !.objects = r.objects], dirPath, ord,
                                    files, i + 1,
                                    Append(entries, [fileName |-> name,
                                                     lineBytes |-> lineBytes]),
                                    totalSize + Len(lineBytes),
                                    written \o r.written)
             ELSE LET b == writeBlobObject(fs, path)
                      lineBytes == FileLine(l.node.perm, name, b.hash)
                  IN  IF BlobFailed(b)
                      THEN TreeResult(fs.objects, "error", <<>>, written, path)
                      ELSE TreeLoop([fs EXCEPT !.objects = b.objects], dirPath, ord,
                                    files, i + 1,
                                    Append(entries, [fileName |-> name,
                                                     lineBytes |-> lineBytes]),
                                    totalSize + Len(lineBytes),
                                    Append(written, [path |-> path, kind |-> "blob",
                                                     hash |-> b.hash]))

\* writeTreeObject: list the directory, make([]entry, 0, len(files)-1)
\* (a negative capacity panics), then the loop.
writeTreeObject(fs, dirPath, ord) ==
    LET rd == ReadDir(fs, dirPath, ord)
    IN  IF rd.err THEN TreeResult(fs.objects, "error", <<>>, <<>>, dirPath)
        ELSE IF Len(rd.files) - 1 < 0
        THEN TreeResult(fs.objects, "panic", <<>>, <<>>, dirPath)
        ELSE TreeLoop(fs, dirPath, ord, rd.files, 1, <<>>, 0, <<>>)

(***************************************************************************)
(* State.                                                                  *)
(*   work     the working directory (without its .git), fixed in a run     *)
(*   objects  .git/objects: shard directory -> file name -> bytes          *)
(*   inited   whether init ran (.git/refs and .git/HEAD exist)             *)
(*   result   what the last command did and printed                        *)
(***************************************************************************)
VARIABLES work, objects, inited, result

vars == <<work, objects, inited, result>>

fs == [work |-> work, objects |-> objects, inited |-> inited]

\* cmd, arg: the command and its arguments; status: "ok", "error" (exit
\* status 1) or "panic"; out: what it printed; hash, obj, lines: the hash,
\* object or tree entries it computed; written, at: the object files a
\* write-tree saved and where it failed; before: for a write-tree, the
\* hash of the write-tree that ran just before it, if one did and ended
\* well.
Result(cmd, arg, status, out, hash, obj, lines, written, at) ==
    [cmd |-> cmd, arg |-> arg, status |-> status, out |-> out, hash |-> hash,
     obj |-> obj, lines |-> lines, written |-> written, at |-> at,
     before |-> <<>>]

NoResult == Result("none", <<>>, "ok", <<>>, <<>>, NoObject, <<>>, <<>>, <<>>)

(***************************************************************************)
(* Inputs.                                                                 *)
(***************************************************************************)
\* File names: "a", "ab", "b", "c", "ba", "d", in the order they are added
\* as MaxEntries grows.
NamePool == <<<<97>>, <<97, 98>>, <<98>>, <<99>>, <<98, 97>>, <<100>>>>
Names == {NamePool[i] : i \in 1..Min(MaxEntries, Len(NamePool))}
MissingName == <<122, 122>>

\* Permission bits: 0644, and 0200 (not readable by its owner).
Perm644 == 6 * 64 + 4 * 8 + 4
Perm200 == 2 * 64

\* Byte strings over alphabet of length at most n.
RECURSIVE BytesUpTo(_, _)
BytesUpTo(alphabet, n) ==
    IF n = 0 THEN {<<>>}
    ELSE LET shorter == BytesUpTo(alphabet, n - 1)
         IN  shorter \cup {Append(s, b) : s \in shorter, b \in alphabet}

\* "h"
Hello == <<104>>

\* A plain file: readable, content "h".
PlainFile == FileNode(Hello, Perm644)

\* The entries of which a generated root holds at most one: an unreadable
\* file, and subdirectories: empty, unreadable, holding one file (empty
\* and executable), holding one unreadable file, holding a .git entry of
\* their own, holding a .git entry and a file, holding a subdirectory and
\* an unreadable file.
SpecialNodes ==
    {FileNode(Hello, Perm200),
     DirNode(<<>>, mode),
     DirNode(<<>>, Perm200),
     DirNode((NamePool[1] :> FileNode(<<>>, mode)), mode),
     DirNode((NamePool[1] :> FileNode(Hello, Perm200)), mode),
     DirNode((DotGit :> PlainFile), mode),
     DirNode((DotGit :> PlainFile) @@ (NamePool[1] :> PlainFile), mode),
     DirNode((NamePool[1] :> DirNode((NamePool[1] :> PlainFile), mode))
             @@ (NamePool[3] :> FileNode(Hello, Perm200)), mode)}

\* All directories over a set of names, each name absent or one variant.
Children(names, variants) ==
    UNION {[dom -> variants] : dom \in SUBSET names}

\* The name of the special entry: "ab", which sorts between "a" and "b".
SpecialName == NamePool[2]

\* The generated working directories: every root of plain files over
\* Names, with or without one special entry named "ab" (listing orders
\* put it before, between and after the plain files).
WorkTrees ==
    {DirNode(ch, mode) :
        ch \in {c \in Children(Names, {PlainFile} \cup SpecialNodes) :
                   \A n \in DOMAIN c : c[n] # PlainFile => n = SpecialName}}

\* The working directories of the blob round trip: one file "a" of
\* arbitrary content over {NUL, SP, "h"} up to MaxLen bytes.
BlobTrees ==
    {DirNode((NamePool[1] :> FileNode(p, Perm644)), mode) :
        p \in BytesUpTo({NUL, SP, 104}, MaxLen)}

\* The paths of a directory's nodes.
RECURSIVE PathsOf(_)
PathsOf(node) ==
    IF ~node.isDir THEN {<<>>}
    ELSE {<<>>} \cup UNION {{<<n>> \o p : p \in PathsOf(node.children[n])} :
                              n \in DOMAIN node.children}

\* The file arguments of hash-object: every node of the working directory
\* but the root, and one path that does not exist.
FileArgs == (PathsOf(work) \ {<<>>}) \cup {<<MissingName>>}

\* A hash argument naming no object: forty zeros.
AbsentHash == [i \in 1..(2 * HashLen) |-> 48]

\* The hash arguments of cat-file and ls-tree.
HashArgs == Hashes(objects) \cup {AbsentHash}

\* "-t", "-s", "-p"
FlagT == <<45, 116>>
FlagS == <<45, 115>>
FlagP == <<45, 112>>
Flags == {FlagT, FlagS, FlagP}

(***************************************************************************)
(* The commands of main.                                                   *)
(***************************************************************************)
Init ==
    /\ work \in WorkTrees
    /\ objects = <<>>
    /\ inited = FALSE
    /\ result = NoResult

\* case "init": MkdirAll .git, .git/objects, .git/refs; write .git/HEAD.
CmdInit ==
    /\ inited' = TRUE
    /\ result' = Result("init", <<>>, "ok", <<>>, <<>>, NoObject, <<>>, <<>>, <<>>)
    /\ UNCHANGED <<work, objects>>

\* fmt.Print of an integer.
PrintInt(n) == IF n < 0 THEN <<45>> \o Itoa(0 - n) ELSE Itoa(n)

\* case "cat-file": parseObject(os.Args[3]), then print by os.Args[2].
CmdCatFile(hash, flag) ==
    LET r == parseObject(objects, hash)
        known == flag \in {FlagT, FlagS, FlagP}
        out == CASE flag = FlagT -> r.obj.Type
                 [] flag = FlagS -> PrintInt(r.obj.Size)
                 [] flag = FlagP -> r.obj.Content
                 [] OTHER -> <<>>
    IN  /\ result' = Result("cat-file", <<hash, flag>>,
                            IF r.status = "ok" /\ ~known THEN "error" ELSE r.status,
                            IF r.status = "ok" THEN out ELSE <<>>,
                            <<>>, r.obj, <<>>, <<>>, <<>>)
        /\ UNCHANGED <<work, objects, inited>>

\* case "hash-object": writeBlobObject(os.Args[3]), print the hex hash.
CmdHashObject(filename) ==
    LET b == writeBlobObject(fs, filename)
    IN  /\ objects' = b.objects
        /\ result' = Result("hash-object", filename,
                            IF b.err THEN "error" ELSE "ok",
                            IF b.err THEN <<>> ELSE EncodeToString(b.hash),
                            b.hash, NoObject, <<>>, <<>>, <<>>)
        /\ UNCHANGED <<work, inited>>

\* case "ls-tree": parseObject, then decodeTreeObjectContent of its content.
CmdLsTree(hash) ==
    LET r == parseObject(objects, hash)
        d == decodeTreeObjectContent(r.obj.Content)
    IN  /\ result' = IF r.status # "ok"
                     THEN Result("ls-tree", hash, r.status, <<>>, <<>>, r.obj,
                                 <<>>, <<>>, <<>>)
                     ELSE Result("ls-tree", hash, d.status, d.output, <<>>, r.obj,
                                 d.lines, <<>>, <<>>)
        /\ UNCHANGED <<work, objects, inited>>

\* case "write-tree": writeTreeObject("."), print the hex hash.
CmdWriteTree(ord) ==
    LET t == writeTreeObject(fs, <<>>, ord)
    IN  /\ objects' = t.objects
        /\ result' = [Result("write-tree", ord, t.status,
                             IF t.status = "ok" THEN EncodeToString(t.hash)
                             ELSE <<>>,
                             t.hash, NoObject, <<>>, t.written, t.at)
                      EXCEPT !.before =
                          IF result.cmd = "write-tree" /\ result.status = "ok"
                          THEN result.hash ELSE <<>>]
        /\ UNCHANGED <<work, inited>>

Next ==
    \/ CmdInit
    \/ \E hash \in HashArgs, flag \in Flags : CmdCatFile(hash, flag)
    \/ \E filename \in FileArgs : CmdHashObject(filename)
    \/ \E hash \in HashArgs : CmdLsTree(hash)
    \/ \E ord \in Orders : CmdWriteTree(ord)

Spec == Init /\ [][Next]_vars

\* The same program over the working directories of the blob round trip.
InitBlob ==
    /\ work \in BlobTrees
    /\ objects = <<>>
    /\ inited = FALSE
    /\ result = NoResult

SpecBlob == InitBlob /\ [][Next]_vars

\* Object buffers some other writer left in the store: a type, a space or
\* none, a size field, a NUL or none, a payload.
ForeignSizes == {<<48>>, <<50>>, <<120>>}
ForeignBuffers ==
    {Concat(<<TypeBlob, sep1, size, sep2, payload>>) :
        sep1 \in {<<SP>>, <<>>}, size \in ForeignSizes,
        sep2 \in {<<NUL>>, <<>>}, payload \in BytesUpTo({104, SP}, MaxLen)}

\* The same program started on an initialised repository whose store holds
\* one such object, deflated and filed under its hash.
InitForeign ==
    /\ work = DirNode((NamePool[1] :> PlainFile), mode)
    /\ \E raw \in ForeignBuffers :
           objects = saveObjectFile(<<>>, raw, calculateObjectBytesHash(raw))
    /\ inited = TRUE
    /\ result = NoResult

SpecForeign == InitForeign /\ [][Next]_vars

(***************************************************************************)
(* Properties.                                                             *)
(***************************************************************************)
\* The entries of a tree payload as the format defines them: mode, space,
\* name, NUL, 20 hash bytes, the next entry right after the hash.
RECURSIVE RefEntries(_)
RefEntries(payload) ==
    IF payload = <<>> THEN [ok |-> TRUE, entries |-> <<>>]
    ELSE LET nul == Index(payload, NUL)
             sp == Index(payload, SP)
         IN  IF nul = -1 \/ sp = -1 \/ sp > nul \/ nul + 1 + HashLen > Len(payload)
             THEN [ok |-> FALSE, entries |-> <<>>]
             ELSE LET rest == RefEntries(GoSlice(payload, nul + 1 + HashLen,
                                                 Len(payload)))
                  IN  [ok |-> rest.ok,
                       entries |-> <<[ModeStr |-> GoSlice(payload, 0, sp),
                                      Name |-> GoSlice(payload, sp + 1, nul),
                                      Hash |-> GoSlice(payload, nul + 1,
                                                       nul + 1 + HashLen)]>>
                                   \o rest.entries]

\* The object stored under a raw hash.
ObjectAt(hashBytes) == parseObject(objects, EncodeToString(hashBytes))

\* The hex hashes of the tree objects in the store.
TreeHashes == {h \in Hashes(objects) : parseObject(objects, h).obj.Type = TypeTree}

IsPrefix(p, q) == Len(p) <= Len(q) /\ SubSeq(q, 1, Len(p)) = p

\* The paths of the nodes the owner cannot read, .git entries left out.
RECURSIVE Unreadable(_)
Unreadable(node) ==
    (IF Readable(node.perm) THEN {} ELSE {<<>>})
    \cup (IF node.isDir /\ Readable(node.perm)
          THEN UNION {{<<n>> \o p : p \in Unreadable(node.children[n])} :
                        n \in DOMAIN node.children \ {DotGit}}
          ELSE {})

\* C1: after hash-object of a file with content p, reading the returned
\* hash yields a blob of size Len(p) with payload p.
C1_StoreRoundTrip ==
    (result.cmd = "hash-object" /\ result.status = "ok") =>
        LET p == Lookup(fs, result.arg).node.content
            r == ObjectAt(result.hash)
        IN  /\ r.status = "ok"
            /\ r.obj = [Type |-> TypeBlob, Size |-> Len(p), Content |-> p]

\* C1's case: a content of full length holding a NUL and a space was
\* written and its hash returned.
C1_Witness ==
    /\ result.cmd = "hash-object" /\ result.status = "ok"
    /\ LET p == Lookup(fs, result.arg).node.content
       IN  Len(p) = MaxLen /\ p[1] = NUL /\ p[Len(p)] = SP

\* C4: every tree object a write-tree saved lists, in strictly ascending
\* byte order of name, exactly the entries of its directory other than
\* .git, whatever the listing order was.
C4_TreeOrdering ==
    result.cmd = "write-tree" =>
        \A k \in 1..Len(result.written) :
            LET w == result.written[k]
                dir == Lookup(fs, w.path).node
                e == RefEntries(ObjectAt(w.hash).obj.Content)
                names == [i \in 1..Len(e.entries) |-> e.entries[i].Name]
            IN  w.kind = "tree" =>
                    /\ ObjectAt(w.hash).status = "ok" /\ e.ok
                    /\ Len(names) = Cardinality(DOMAIN dir.children \ {DotGit})
                    /\ {names[i] : i \in 1..Len(names)} = DOMAIN dir.children \ {DotGit}
                    /\ \A i \in 1..Len(names), j \in 1..Len(names) :
                           i < j => StrLess(names[i], names[j])

\* C4's case: a root of three entries, one a subdirectory, listed
\* descending and rotated ("b", "a", "ab"), was written.
C4_Witness ==
    /\ result.cmd = "write-tree" /\ result.status = "ok"
    /\ result.arg = [desc |-> TRUE, rot |-> 1]
    /\ Cardinality(DOMAIN work.children) = 3
    /\ \E n \in DOMAIN work.children : work.children[n].isDir

\* C5: a write-tree that directly follows a successful write-tree returns
\* the same hash (the working directory does not change in between; the
\* store under .git does, and the listing order may).
C5_Determinism ==
    (result.cmd = "write-tree" /\ result.before # <<>>) =>
        result.status = "ok" /\ result.hash = result.before

\* C5's case: the second of two write-trees in a row, on a directory that
\* holds the store and a subdirectory with a .git entry of its own.
C5_Witness ==
    /\ result.cmd = "write-tree" /\ result.before # <<>>
    /\ GitExists(fs)
    /\ \E n \in DOMAIN work.children :
           work.children[n].isDir /\ DotGit \in DOMAIN work.children[n].children

\* C6: no command removes or changes a stored object; a hash-object whose
\* blob is already stored returns the hash it is stored under and leaves
\* the store as it was, and so does a write-tree repeated on its own
\* objects.
C6_Immutability ==
    [][/\ \A h \in Hashes(objects) :
              /\ h \in Hashes(objects')
              /\ \/ objects'[getObjectDir(h)] = objects[getObjectDir(h)]
                 \/ parseObject(objects', h) = parseObject(objects, h)
       /\ (result'.cmd = "hash-object" /\ result'.status = "ok") =>
              LET p == Lookup(fs, result'.arg).node.content
                  stored == {h \in Hashes(objects) :
                                parseObject(objects, h).obj
                                = [Type |-> TypeBlob, Size |-> Len(p), Content |-> p]}
              IN  stored # {} =>
                      stored = {EncodeToString(result'.hash)} /\ objects' = objects
       /\ (result'.cmd = "write-tree" /\ result'.before # <<>>) =>
              objects' = objects
      ]_vars

\* C6's case: a hash-object ran on a store that a write-tree had filled
\* before (the store holds a tree), so its blob was already present.
C6_Witness ==
    /\ result.cmd = "hash-object" /\ result.status = "ok"
    /\ TreeHashes # {}

\* C7: a write-tree over a directory with an unreadable file or
\* subdirectory does not succeed; when it returns an error, the error is at
\* an unreadable node, no tree was saved for a directory on the path to
\* it, and everything saved before is in the store.
C7_FailedBuild ==
    result.cmd = "write-tree" =>
        /\ Unreadable(work) # {} => result.status # "ok"
        /\ result.status = "error" =>
              /\ result.at \in Unreadable(work)
              /\ \A k \in 1..Len(result.written) :
                     LET w == result.written[k]
                     IN  /\ ~(w.kind = "tree" /\ IsPrefix(w.path, result.at))
                         /\ ObjectAt(w.hash).status = "ok"
                         /\ ObjectAt(w.hash).obj.Type
                            = (IF w.kind = "tree" THEN TypeTree ELSE TypeBlob)

\* C7's case: the build failed two levels down after saving a subtree.
C7_Witness ==
    /\ result.cmd = "write-tree" /\ result.status = "error"
    /\ Len(result.at) = 2
    /\ \E k \in 1..Len(result.written) : result.written[k].kind = "tree"

\* C9: a write-tree over a directory all of whose nodes are readable
\* completes.
C9_BuildTreeCompletes ==
    (result.cmd = "write-tree" /\ Unreadable(work) = {}) => result.status = "ok"

\* C10: every hash in an entry of a stored tree object is the hash of a
\* stored object.
C10_ReferentialClosure ==
    \A h \in TreeHashes :
        LET e == RefEntries(parseObject(objects, h).obj.Content)
        IN  /\ e.ok
            /\ \A i \in 1..Len(e.entries) :
                   PathExists(objects,
                              getObjectPath(EncodeToString(e.entries[i].Hash)))

\* C10's case: a build failed part-way and left a tree object with an
\* entry in the store.
C10_Witness ==
    /\ result.cmd = "write-tree" /\ result.status = "error"
    /\ \E h \in TreeHashes : parseObject(objects, h).obj.Size > 0


\* The decompressed bytes of the object file a hex hash names.
StoredBytes(hash) ==
    Decompress(objects[getObjectPath(hash)[1]][getObjectPath(hash)[2]]).data

\* C2: cat-file of a stored object whose buffer has no space or no NUL
\* ends with an error, not a panic and not an object.
C2_MalformedRejected ==
    (/\ result.cmd = "cat-file"
     /\ result.arg[1] \in Hashes(objects)
     /\ \/ Index(StoredBytes(result.arg[1]), SP) = -1
        \/ Index(StoredBytes(result.arg[1]), NUL) = -1)
    => result.status = "error"

\* C3: every object cat-file reads has a size equal to the length of its
\* payload.
C3_SizeMatchesPayload ==
    (result.cmd = "cat-file" /\ result.status = "ok") =>
        result.obj.Size = Len(result.obj.Content)

\* A payload of well-formed entries: a mode of digits, a name without
\* space or NUL, 20 hash bytes.
WellFormedEntries(payload) ==
    LET e == RefEntries(payload)
    IN  /\ e.ok /\ Len(e.entries) >= 1
        /\ \A i \in 1..Len(e.entries) :
               /\ e.entries[i].ModeStr # <<>>
               /\ \A k \in 1..Len(e.entries[i].ModeStr) :
                      IsDigit(e.entries[i].ModeStr[k])
               /\ e.entries[i].Name # <<>>
               /\ \A k \in 1..Len(e.entries[i].Name) :
                      e.entries[i].Name[k] \notin {SP, NUL}

\* C8: ls-tree of a tree whose payload is n >= 1 well-formed entries
\* decodes n entries, the i-th with the mode, name and hash of the i-th
\* entry of the payload.
C8_DecodeEntries ==
    (/\ result.cmd = "ls-tree"
     /\ result.obj # NoObject
     /\ WellFormedEntries(result.obj.Content))
    => LET e == RefEntries(result.obj.Content).entries
       IN  /\ result.status = "ok"
           /\ Len(result.lines) = Len(e)
           /\ \A i \in 1..Len(e) :
                  result.lines[i] = [Mode |-> Atoi(e[i].ModeStr).val,
                                     Name |-> e[i].Name,
                                     Hash |-> e[i].Hash]
=============================================================================
